---- MODULE Spec2Model ----
(***************************************************************************)
(* Model of scripts/install.py: the JSON configuration merge engine        *)
(* (update_json_file and the three update_* adapters), the entry builder   *)
(* (get_binary_config, create_server_config) and main's server x           *)
(* environment loop.                                                       *)
(***************************************************************************)
EXTENDS Integers, Sequences, FiniteSets, TLC

(* ---------------- JSON values ------------------------------------------ *)
\* A JSON value as json.load returns it: k is the Python type, m the items
\* of a dict, a the items of a list or the single string of a str.
EmptyMap == [x \in {} |-> x]
Obj(m) == [k |-> "obj", m |-> m, a |-> <<>>]
Str(s) == [k |-> "str", m |-> EmptyMap, a |-> <<s>>]
Arr(s) == [k |-> "arr", m |-> EmptyMap, a |-> s]
Null == [k |-> "null", m |-> EmptyMap, a |-> <<>>]
EmptyDoc == Obj(EmptyMap)
IsObj(v) == v.k = "obj"
Keys(v) == DOMAIN v.m

\* d[key] = val on a dict's items
MapSet(m, key, val) == [x \in (DOMAIN m) \cup {key} |-> IF x = key THEN val ELSE m[x]]
\* one-key dict items
Map1(key, val) == [x \in {key} |-> val]

(* ---------------- target shape adapters -------------------------------- *)
\* The nested update(data) closures.  Result: raised (a TypeError left the
\* closure), doc (data after the closure), entry (the caller's server_config
\* object after the closure; the closures receive it by reference).
Raised(data, server_config) == [raised |-> TRUE, doc |-> data, entry |-> server_config]
Done(data, server_config) == [raised |-> FALSE, doc |-> data, entry |-> server_config]

\* the container is reset even when it is there (the `not in` test lost)
EnsureKey_Reset(d, key) == Obj(MapSet(d.m, key, EmptyDoc))
\* `key not in d; d[key] = {}`: d with the container created when missing
EnsureKey(d, key) == IF key \in Keys(d) THEN d ELSE Obj(MapSet(d.m, key, EmptyDoc))

update_vscode_workspace(data, server_name, server_config) ==
  IF ~IsObj(data) THEN Raised(data, server_config)
  ELSE LET d1 == EnsureKey(data, "servers") IN
       IF ~IsObj(d1.m["servers"]) THEN Raised(d1, server_config)
       ELSE Done(Obj(MapSet(d1.m, "servers",
                   Obj(MapSet(d1.m["servers"].m, server_name, server_config)))),
                 server_config)

update_vscode_user(data, server_name, server_config) ==
  IF ~IsObj(data) THEN Raised(data, server_config)
  ELSE LET d1 == EnsureKey(data, "mcp") IN
       IF ~IsObj(d1.m["mcp"]) THEN Raised(d1, server_config)
       ELSE LET mcp == EnsureKey(d1.m["mcp"], "servers") IN
            IF ~IsObj(mcp.m["servers"]) THEN Raised(d1, server_config)
            ELSE Done(Obj(MapSet(d1.m, "mcp",
                        Obj(MapSet(mcp.m, "servers",
                          Obj(MapSet(mcp.m["servers"].m, server_name, server_config)))))),
                      server_config)

\* config = server_config, without the copy: the tag lands in the shared object
ClaudeEntryCopy_Alias(server_config, is_claude_code) ==
  LET tagged == IF is_claude_code THEN Obj(MapSet(server_config.m, "type", Str("stdio")))
                ELSE server_config
  IN [config |-> tagged, shared |-> tagged]
\* config = dict(server_config); config["type"] = "stdio" when is_claude_code.
\* config is what is stored; shared is the caller's object afterwards.
ClaudeEntryCopy(server_config, is_claude_code) ==
  [config |-> IF is_claude_code THEN Obj(MapSet(server_config.m, "type", Str("stdio")))
              ELSE server_config,
   shared |-> server_config]

update_claude_config(data, server_name, server_config, is_claude_code) ==
  IF ~IsObj(data) THEN Raised(data, server_config)
  ELSE LET d1 == EnsureKey(data, "mcpServers") IN
       IF ~IsObj(d1.m["mcpServers"]) THEN Raised(d1, server_config)
       ELSE LET copy == ClaudeEntryCopy(server_config, is_claude_code) IN
            Done(Obj(MapSet(d1.m, "mcpServers",
                   Obj(MapSet(d1.m["mcpServers"].m, server_name, copy.config)))),
                 copy.shared)

AdapterKinds == {"WorkspaceNested", "UserNested", "FlatPlain", "FlatWithTypeTag"}
\* dispatch on the update_func that each update_* function hands to update_json_file
Adapter(kind, data, server_name, server_config) ==
  CASE kind = "WorkspaceNested" -> update_vscode_workspace(data, server_name, server_config)
    [] kind = "UserNested" -> update_vscode_user(data, server_name, server_config)
    [] kind = "FlatPlain" -> update_claude_config(data, server_name, server_config, FALSE)
    [] kind = "FlatWithTypeTag" -> update_claude_config(data, server_name, server_config, TRUE)

(* ---------------- file contents ---------------------------------------- *)
\* The bytes of a file: t = "absent" (no file), "json" (the text of document
\* d; c says the text is exactly json.dump(d, indent=2) + "\n"), "garbage"
\* (text that is not JSON), "trunc" (the empty or cut-off text a failed write
\* leaves), "undecodable" (bytes that are not UTF-8).
Absent == [t |-> "absent", d |-> Null, c |-> FALSE]
Garbage == [t |-> "garbage", d |-> Null, c |-> FALSE]
Trunc == [t |-> "trunc", d |-> Null, c |-> FALSE]
Undecodable == [t |-> "undecodable", d |-> Null, c |-> FALSE]
JsonText(d, c) == [t |-> "json", d |-> d, c |-> c]
Exists(f) == f.t # "absent"

\* json.dump(data, f, indent=2); f.write("\n")
Dump(data) == JsonText(data, TRUE)
\* open(path, encoding="utf-8") + json.load: "ok", "JSONDecodeError" or
\* another exception (UnicodeDecodeError), which the except clause lets pass
LoadOutcome(f) ==
  CASE f.t = "json" -> "ok"
    [] f.t \in {"garbage", "trunc"} -> "JSONDecodeError"
    [] OTHER -> "error"

(* ---------------- update_json_file ------------------------------------- *)
\* Outcomes of the I/O steps, as the file system decides them.
\*   backup : "ok" | "fail" (.bak untouched) | "partial" (.bak cut off)
\*   mkdir  : "ok" | "fail"
\*   persist: "ok" | "open_fail" (target untouched) | "write_fail" (target cut off)
\*   restore: "ok" | "fail"
NoFault == [backup |-> "ok", mkdir |-> "ok", persist |-> "ok", restore |-> "ok"]

\* lines 291-297: the .bak after the backup step
BackupStep(file, bak, flt) ==
  IF ~Exists(file) THEN bak
  ELSE CASE flt.backup = "ok" -> file
         [] flt.backup = "partial" -> Trunc
         [] OTHER -> bak

\* the target opened with "a": the dump lands after the bytes already there
PersistStep_Append(file, data) == IF Exists(file) THEN Garbage ELSE Dump(data)
\* lines 305-309: open(path, "w") and the dump replace the target's bytes
PersistStep(file, data) == Dump(data)

\* lines 311-320: the target after a failed write
RestoreStep(damaged, bak, flt) ==
  IF Exists(bak) /\ flt.restore = "ok" THEN bak ELSE damaged

Restored(bak, flt) == Exists(bak) /\ flt.restore = "ok"

update_json_file(path, file, bak, kind, server_name, server_config, flt) ==
  LET existed == Exists(file)
      load == IF existed THEN LoadOutcome(file) ELSE "missing"
      data == IF load = "ok" THEN file.d ELSE EmptyDoc
      bak1 == IF load = "error" THEN bak ELSE BackupStep(file, bak, flt)
      upd == Adapter(kind, data, server_name, server_config)
      \* what the call did: pre/post are the bytes of the target and of the
      \* .bak before and after; stage is the step the call ended in
      rec(post, result, stage, restored, wrote) ==
        [path |-> path, kind |-> kind, name |-> server_name, entry |-> server_config,
         pre |-> file, preBak |-> bak, existed |-> existed,
         warnParse |-> (load = "JSONDecodeError"),
         snapshot |-> (existed /\ load # "error" /\ flt.backup = "ok"),
         warnBackup |-> (existed /\ load # "error" /\ flt.backup # "ok"),
         wroteBak |-> (existed /\ load # "error" /\ flt.backup # "fail"),
         dataIn |-> data,
         dataOut |-> IF load = "error" THEN data ELSE upd.doc,
         entryAfter |-> IF load = "error" THEN server_config ELSE upd.entry,
         post |-> post, postBak |-> bak1, result |-> result, stage |-> stage,
         restored |-> restored, wrote |-> wrote]
  IN
  IF load = "error" THEN
    \* the exception leaves update_json_file before the backup step
    rec(file, "raise", "read", FALSE, FALSE)
  ELSE IF upd.raised THEN
    rec(file, "raise", "mutate", FALSE, FALSE)
  ELSE IF ~existed /\ flt.mkdir = "fail" THEN
    rec(file, "raise", "mkdir", FALSE, FALSE)
  ELSE IF flt.persist = "ok" THEN
    rec(PersistStep(file, upd.doc), "True", "done", FALSE, TRUE)
  ELSE
    LET damaged == IF flt.persist = "write_fail" THEN Trunc ELSE file IN
    rec(RestoreStep(damaged, bak1, flt), "False", "persist",
        Restored(bak1, flt), flt.persist = "write_fail" \/ Restored(bak1, flt))

(* ---------------- prompts ---------------------------------------------- *)
DefaultHost == "https://gitlab.com"
\* answers typed at the prompts (after .strip())
ModeInputs == {"", "docker"}
HostInputs == {"", "https://gitlab.example.com"}
ReadonlyInputs == {"", "y"}
TokenInputs == {"glpat-1"}
\* names typed in collect_servers; a name already used is asked again
NamePool == {"work", "personal"}

\* lines 58-93, with the name main adds on line 452
prompt_user(mode_input, host_input, token, readonly_input, name) ==
  [name |-> name,
   mode |-> IF mode_input = "" \/ mode_input = "local" THEN "local" ELSE "docker",
   gitlab_host |-> IF host_input # "" THEN host_input ELSE DefaultHost,
   token |-> token,
   readonly |-> readonly_input \in {"y", "yes"}]

\* servers after the first get the default mode instead of global_mode
collect_servers_LocalDefault(names, mode_input, hosts, tokens, readonlys) ==
  [i \in 1..Len(names) |->
     prompt_user(IF i = 1 THEN mode_input ELSE "", hosts[i], tokens[i], readonlys[i], names[i])]
\* lines 107-180: the mode asked for server 1 is used for every server
collect_servers(names, mode_input, hosts, tokens, readonlys) ==
  [i \in 1..Len(names) |->
     prompt_user(mode_input, hosts[i], tokens[i], readonlys[i], names[i])]

Environments == <<"VS Code", "Claude Desktop", "Claude Code", "Cursor">>
Lower(env) ==
  CASE env = "VS Code" -> "vs code"
    [] env = "Claude Desktop" -> "claude desktop"
    [] env = "Claude Code" -> "claude code"
    [] env = "Cursor" -> "cursor"

\* one comma-separated part of the answer: a number or other (lower-cased) text
Num(n) == [num |-> TRUE, n |-> n, s |-> ""]
Txt(s) == [num |-> FALSE, n |-> 0, s |-> s]
\* the answers tried; <<>> is the empty answer
EnvChoices == { <<>>, <<Num(1)>>, <<Num(3), Num(1)>>, <<Txt("cursor"), Txt("zed")>>, <<Num(9)>> }

\* lines 196-216: the environment one part selects, as a list of 0 or 1 names
SelectPart(part) ==
  IF part.num
  THEN IF 1 <= part.n /\ part.n <= Len(Environments) THEN <<Environments[part.n]>> ELSE <<>>
  ELSE LET hits == {i \in 1..Len(Environments) : Lower(Environments[i]) = part.s} IN
       IF hits = {} THEN <<>>
       ELSE <<Environments[CHOOSE i \in hits : \A j \in hits : i <= j]>>

RECURSIVE SelectParts(_)
SelectParts(parts) ==
  IF parts = <<>> THEN <<>> ELSE SelectPart(Head(parts)) \o SelectParts(Tail(parts))

\* lines 183-218
prompt_environments(choice) ==
  IF choice = <<>> THEN Environments
  ELSE LET selected == SelectParts(choice) IN
       IF selected # <<>> THEN selected ELSE Environments

(* ---------------- entry builder ---------------------------------------- *)
BinaryPath == "/project/bin/gitlab-mcp-server"
DockerArgs == <<"run", "-i", "--rm", "-e", "GITLAB_TOKEN", "-e", "GITLAB_HOST",
                "gitlab-mcp-server:latest">>

\* lines 221-250; exit = sys.exit(1) because the binary is missing
get_binary_config(mode, binary_exists) ==
  IF mode = "docker"
  THEN [exit |-> FALSE, mode |-> mode, env |-> EmptyMap, command |-> "docker", args |-> DockerArgs]
  ELSE IF ~binary_exists
       THEN [exit |-> TRUE, mode |-> mode, env |-> EmptyMap, command |-> "", args |-> <<>>]
       ELSE [exit |-> FALSE, mode |-> mode, env |-> EmptyMap, command |-> BinaryPath,
             args |-> <<"stdio">>]

\* list.insert(-1, x)
InsertBeforeLast(s, x) ==
  IF s = <<>> THEN <<x>> ELSE SubSeq(s, 1, Len(s) - 1) \o <<x>> \o <<s[Len(s)]>>

\* lines 483-489 of main
AddReadOnly(binary_config, server_config_data) ==
  IF ~server_config_data.readonly THEN binary_config
  ELSE [binary_config EXCEPT
          !.args = IF binary_config.mode = "docker"
                   THEN InsertBeforeLast(InsertBeforeLast(@, "-e"), "GITLAB_READ_ONLY")
                   ELSE @,
          !.env = MapSet(@, "GITLAB_READ_ONLY", Str("true"))]

\* lines 253-273
create_server_config(binary_config, server_config_data) ==
  LET env0 == binary_config.env
      env1 == MapSet(env0, "GITLAB_TOKEN", Str(server_config_data.token))
      env2 == IF server_config_data.gitlab_host # ""
              THEN MapSet(env1, "GITLAB_HOST", Str(server_config_data.gitlab_host))
              ELSE env1
      env3 == IF server_config_data.readonly
              THEN MapSet(env2, "GITLAB_READ_ONLY", Str("true"))
              ELSE env2
  IN Obj([x \in {"command", "args", "env"} |->
            CASE x = "command" -> Str(binary_config.command)
              [] x = "args" -> Arr(binary_config.args)
              [] x = "env" -> Obj(env3)])

(* ---------------- orchestration ---------------------------------------- *)
\* get_platform_paths (lines 16-55): every key gets a path on every platform
PathKeys == {"vscode_workspace", "vscode_user_settings", "claude_desktop", "claude_code", "cursor"}
NoPath == "None"
get_platform_paths == [k \in PathKeys |-> k]

\* the I/O outcomes tried for one update_json_file call
FaultSet ==
  {NoFault}
  \cup {[NoFault EXCEPT !.backup = b] : b \in {"fail", "partial"}}
  \cup {[NoFault EXCEPT !.mkdir = "fail"]}
  \cup {[backup |-> b, mkdir |-> "ok", persist |-> "write_fail", restore |-> r] :
          b \in {"ok", "fail", "partial"}, r \in {"ok", "fail"}}
  \cup {[backup |-> b, mkdir |-> "ok", persist |-> "open_fail", restore |-> "fail"] :
          b \in {"ok", "fail", "partial"}}
Cost(flt) == IF flt = NoFault THEN 0 ELSE 1
\* the outcomes that make a call on `file` differ: no backup outcome without
\* a file to back up, no mkdir outcome for a file that is there, nothing
\* after the step at which the call raises
FaultsFor(file, kind, server_name, server_config) ==
  {flt \in FaultSet :
     /\ ~Exists(file) => flt.backup = "ok"
     /\ Exists(file) => flt.mkdir = "ok"
     /\ (Exists(file) /\ LoadOutcome(file) = "error") => flt = NoFault
     /\ Adapter(kind, IF file.t = "json" THEN file.d ELSE EmptyDoc,
                server_name, server_config).raised
          => flt.persist = "ok" /\ flt.mkdir = "ok"}
\* the outcomes tried in a run of main: the write fails before or after the
\* target is opened, or the parent directory cannot be made
MainFaults ==
  {NoFault, [NoFault EXCEPT !.mkdir = "fail"],
   [NoFault EXCEPT !.persist = "open_fail", !.restore = "fail"],
   [NoFault EXCEPT !.persist = "write_fail"]}

\* update_vscode without the try/except around the workspace update
update_vscode_NoTry(paths, files, baks, server_name, server_config, flt1, flt2) ==
  LET ws == paths["vscode_workspace"]
      us == paths["vscode_user_settings"]
      c1 == update_json_file(ws, files[ws], baks[ws], "WorkspaceNested",
                             server_name, server_config, flt1)
      c2 == update_json_file(us, files[us], baks[us], "UserNested",
                             server_name, c1.entryAfter, flt2)
  IN IF c1.result = "True" THEN [calls |-> <<c1>>, outcome |-> "True"]
     ELSE IF c1.result = "raise" THEN [calls |-> <<c1>>, outcome |-> "raise"]
     ELSE [calls |-> <<c1, c2>>, outcome |-> c2.result]
\* lines 362-376.  Result: the update_json_file calls made, and outcome
\* "True", "False" or "raise" (an exception leaves update_vscode).
update_vscode(paths, files, baks, server_name, server_config, flt1, flt2) ==
  LET ws == paths["vscode_workspace"]
      us == paths["vscode_user_settings"]
      c1 == update_json_file(ws, files[ws], baks[ws], "WorkspaceNested",
                             server_name, server_config, flt1)
      c2 == update_json_file(us, files[us], baks[us], "UserNested",
                             server_name, c1.entryAfter, flt2)
  IN IF ws # NoPath /\ c1.result = "True" THEN [calls |-> <<c1>>, outcome |-> "True"]
     ELSE IF us # NoPath
          THEN [calls |-> (IF ws # NoPath THEN <<c1>> ELSE <<>>) \o <<c2>>, outcome |-> c2.result]
          ELSE [calls |-> <<c1>>, outcome |-> "False"]

\* lines 389-409: the three update_claude_config branches
ClaudePathKey(env) ==
  CASE env = "Claude Desktop" -> "claude_desktop"
    [] env = "Claude Code" -> "claude_code"
    [] env = "Cursor" -> "cursor"

\* is_claude_code=True only in the "Claude Code" branch
ClaudeKind(env) == IF env = "Claude Code" THEN "FlatWithTypeTag" ELSE "FlatPlain"

update_claude(env, paths, files, baks, server_name, server_config, flt) ==
  LET p == paths[ClaudePathKey(env)]
      c == update_json_file(p, files[p], baks[p], ClaudeKind(env),
                            server_name, server_config, flt)
  IN IF p # NoPath THEN [calls |-> <<c>>, outcome |-> c.result]
     ELSE [calls |-> <<>>, outcome |-> "False"]

\* update_environment without its try/except
update_environment_NoExcept(r) ==
  [calls |-> r.calls, success |-> (r.outcome = "True"), raised |-> (r.outcome = "raise")]
\* lines 379-418: `except Exception` turns a raise into a failure; raised
\* says an exception leaves update_environment and reaches main's loop
update_environment(r) ==
  [calls |-> r.calls, success |-> (r.outcome = "True"), raised |-> FALSE]

\* the file system after a list of calls
RECURSIVE ApplyFiles(_, _)
ApplyFiles(files, cs) ==
  IF cs = <<>> THEN files
  ELSE ApplyFiles([files EXCEPT ![Head(cs).path] = Head(cs).post], Tail(cs))
RECURSIVE ApplyBaks(_, _)
ApplyBaks(baks, cs) ==
  IF cs = <<>> THEN baks
  ELSE ApplyBaks([baks EXCEPT ![Head(cs).path] = Head(cs).postBak], Tail(cs))
Touched(cs) ==
  {<<cs[i].path, "file">> : i \in {j \in 1..Len(cs) : cs[j].wrote}}
  \cup {<<cs[i].path, "bak">> : i \in {j \in 1..Len(cs) : cs[j].wroteBak}}

(* ---------------- documents on disk before the run ---------------------- *)
OldEntry == Obj([x \in {"command", "args"} |->
                   IF x = "command" THEN Str("/old/server") ELSE Arr(<<"serve">>)])
\* unrelated settings, an `inputs` sibling inside mcp, entries already present
RichDoc ==
  Obj([x \in {"editor.fontSize", "servers", "mcp", "mcpServers"} |->
        CASE x = "editor.fontSize" -> Str("14")
          [] x = "servers" -> Obj([n \in {"gitlab", "legacy"} |-> OldEntry])
          [] x = "mcp" -> Obj([y \in {"inputs", "servers"} |->
                                 IF y = "inputs" THEN Arr(<<"token">>)
                                 ELSE Obj(Map1("gitlab", OldEntry))])
          [] x = "mcpServers" -> Obj([n \in {"gitlab", "legacy"} |-> OldEntry])])
\* containers that are present but are not mappings (mcpServers is one)
BadContainers ==
  Obj([x \in {"servers", "mcp", "mcpServers"} |->
        CASE x = "servers" -> Null
          [] x = "mcp" -> Obj(Map1("servers", Str("x")))
          [] x = "mcpServers" -> Obj(Map1("legacy", OldEntry))])
BadMcp == Obj([x \in {"mcp", "servers"} |-> IF x = "mcp" THEN Str("servers") ELSE EmptyDoc])
BadTop == Arr(<<"servers">>)
StaleBak == JsonText(Obj(Map1("stale", Str("backup"))), TRUE)

InitFiles == {Absent, Garbage, Undecodable, JsonText(EmptyDoc, FALSE), JsonText(RichDoc, FALSE),
              JsonText(BadContainers, FALSE), JsonText(BadMcp, FALSE), JsonText(BadTop, FALSE)}
InitBaks == {Absent, StaleBak}

(* ---------------- state ------------------------------------------------ *)
MaxFaults == 1   \* I/O faults injected during one run of main
MaxCalls == 2    \* update_* calls made on the one file of SpecFile

VARIABLES
  fs,             \* path -> bytes of the target file
  bak,            \* path -> bytes of its .json.bak sibling
  calls,          \* the update_json_file calls of the last step, in order
  pc,             \* where main is
  servers,        \* main's `servers`
  environments,   \* main's `environments`
  si, ei,         \* positions of the two loops of main
  binary_exists,  \* <project_root>/bin/gitlab-mcp-server exists
  server_config,  \* the entry object main passes to every update_environment
  attempted,      \* the (server, environment) pairs update_environment ran for
  success,        \* what the last update_environment returned
  touched,        \* files written during this run
  nfail,          \* update_environment calls of this run that returned False
  ncalls, nfaults

vars == <<fs, bak, calls, pc, servers, environments, si, ei, binary_exists,
          server_config, attempted, success, touched, nfail, ncalls, nfaults>>

NoFiles == [k \in PathKeys |-> Absent]

Init ==
  /\ pc = "start"
  /\ binary_exists \in BOOLEAN
  /\ \E w \in {Absent, JsonText(BadContainers, FALSE)}, u \in {Absent, JsonText(RichDoc, FALSE)} :
       fs = [NoFiles EXCEPT !["vscode_workspace"] = w, !["vscode_user_settings"] = u]
  /\ \E b \in InitBaks : bak = [NoFiles EXCEPT !["cursor"] = b]
  /\ calls = <<>>
  /\ servers = <<>>
  /\ environments = <<>>
  /\ si = 1 /\ ei = 1
  /\ server_config = Null
  /\ attempted = <<>>
  /\ success = FALSE
  /\ touched = {}
  /\ nfail = 0
  /\ ncalls = 0 /\ nfaults = 0

(* ---------------- main ------------------------------------------------- *)
\* lines 449-453: one server, named "gitlab"
PromptUser ==
  /\ pc = "start"
  /\ \E m \in ModeInputs, h \in HostInputs, t \in TokenInputs, r \in ReadonlyInputs :
       servers' = <<prompt_user(m, h, t, r, "gitlab")>>
  /\ pc' = "environments"
  /\ UNCHANGED <<fs, bak, calls, environments, si, ei, binary_exists, server_config,
                 attempted, success, touched, nfail, ncalls, nfaults>>

Injective(f) == \A i, j \in DOMAIN f : f[i] = f[j] => i = j

\* lines 447-448
CollectServers ==
  /\ pc = "start"
  /\ \E n \in 1..Cardinality(NamePool) :
       \E names \in [1..n -> NamePool], m \in ModeInputs, hs \in [1..n -> HostInputs],
          ts \in [1..n -> TokenInputs], rs \in [1..n -> ReadonlyInputs] :
         /\ Injective(names)
         /\ servers' = collect_servers(names, m, hs, ts, rs)
  /\ pc' = "environments"
  /\ UNCHANGED <<fs, bak, calls, environments, si, ei, binary_exists, server_config,
                 attempted, success, touched, nfail, ncalls, nfaults>>

\* lines 440-442, 454-456, 461-463: KeyboardInterrupt or EOF at a prompt
Cancelled ==
  /\ pc \in {"start", "environments"}
  /\ pc' = "cancelled"
  /\ UNCHANGED <<fs, bak, calls, servers, environments, si, ei, binary_exists, server_config,
                 attempted, success, touched, nfail, ncalls, nfaults>>

\* lines 458-466
PromptEnvironments ==
  /\ pc = "environments"
  /\ \E choice \in EnvChoices : environments' = prompt_environments(choice)
  /\ pc' = "server"
  /\ si' = 1
  /\ UNCHANGED <<fs, bak, calls, servers, ei, binary_exists, server_config,
                 attempted, success, touched, nfail, ncalls, nfaults>>

\* lines 470-492: the head of the server loop
ProcessServer ==
  /\ pc = "server"
  /\ si <= Len(servers)
  /\ LET data == servers[si]
         binary_config == get_binary_config(data.mode, binary_exists)
     IN IF binary_config.exit
        THEN /\ pc' = "exit"
             /\ UNCHANGED <<server_config, ei>>
        ELSE /\ server_config' = create_server_config(AddReadOnly(binary_config, data), data)
             /\ ei' = 1
             /\ pc' = "env"
  /\ UNCHANGED <<fs, bak, calls, servers, environments, si, binary_exists,
                 attempted, success, touched, nfail, ncalls, nfaults>>

\* the bookkeeping common to one pass of `for env in environments`
Step(r, cost) ==
  /\ calls' = r.calls
  /\ success' = update_environment(r).success
  /\ nfail' = IF update_environment(r).success THEN nfail ELSE nfail + 1
  /\ fs' = ApplyFiles(fs, r.calls)
  /\ bak' = ApplyBaks(bak, r.calls)
  /\ server_config' = r.calls[Len(r.calls)].entryAfter
  /\ touched' = touched \cup Touched(r.calls)
  /\ attempted' = Append(attempted, <<servers[si].name, environments[ei]>>)
  /\ nfaults' = nfaults + cost
  /\ ncalls' = ncalls
  /\ IF update_environment(r).raised
     THEN ei' = ei /\ pc' = "crashed" /\ si' = si
     ELSE IF ei < Len(environments)
          THEN ei' = ei + 1 /\ pc' = "env" /\ si' = si
          ELSE ei' = ei + 1 /\ pc' = "server" /\ si' = si + 1
  /\ UNCHANGED <<servers, environments, binary_exists>>

\* lines 495-496 with env = "VS Code"
UpdateVSCode ==
  /\ pc = "env"
  /\ environments[ei] = "VS Code"
  /\ \E flt1 \in MainFaults \cap FaultsFor(fs["vscode_workspace"], "WorkspaceNested",
                                            servers[si].name, server_config),
        flt2 \in MainFaults \cap FaultsFor(fs["vscode_user_settings"], "UserNested",
                                            servers[si].name, server_config) :
       /\ nfaults + Cost(flt1) + Cost(flt2) <= MaxFaults
       /\ LET r == update_vscode(get_platform_paths, fs, bak, servers[si].name,
                                 server_config, flt1, flt2)
          IN /\ (Len(r.calls) = 1 => flt2 = NoFault)
             /\ Step(r, Cost(flt1) + Cost(flt2))

\* lines 495-496 with env one of the three update_claude_config targets
UpdateClaude ==
  /\ pc = "env"
  /\ environments[ei] # "VS Code"
  /\ \E flt \in MainFaults \cap FaultsFor(fs[ClaudePathKey(environments[ei])],
                                          ClaudeKind(environments[ei]),
                                          servers[si].name, server_config) :
       /\ nfaults + Cost(flt) <= MaxFaults
       /\ Step(update_claude(environments[ei], get_platform_paths, fs, bak,
                             servers[si].name, server_config, flt), Cost(flt))

\* lines 498-519
Summary ==
  /\ pc = "server"
  /\ si > Len(servers)
  /\ pc' = "done"
  /\ UNCHANGED <<fs, bak, calls, servers, environments, si, ei, binary_exists, server_config,
                 attempted, success, touched, nfail, ncalls, nfaults>>

Next ==
  \/ PromptUser
  \/ CollectServers
  \/ Cancelled
  \/ PromptEnvironments
  \/ ProcessServer
  \/ UpdateVSCode
  \/ UpdateClaude
  \/ Summary

Spec == Init /\ [][Next]_vars

(* ---------------- one file, any sequence of update_* calls -------------- *)
FilePath == "vscode_workspace"
TestNames == {"gitlab"}
TestRecords == {prompt_user("", "", "glpat-1", "", "gitlab"),
                prompt_user("docker", "https://gitlab.example.com", "glpat-1", "y", "gitlab")}
TestEntries == {create_server_config(AddReadOnly(get_binary_config(d.mode, TRUE), d), d) :
                  d \in TestRecords}

InitFile ==
  /\ pc = "file"
  /\ binary_exists = TRUE
  /\ \E f \in InitFiles : fs = [NoFiles EXCEPT ![FilePath] = f]
  /\ \E b \in InitBaks : bak = [NoFiles EXCEPT ![FilePath] = b]
  /\ calls = <<>>
  /\ servers = <<>>
  /\ environments = <<>>
  /\ si = 1 /\ ei = 1
  /\ server_config = Null
  /\ attempted = <<>>
  /\ success = FALSE
  /\ touched = {}
  /\ nfail = 0
  /\ ncalls = 0 /\ nfaults = 0

FileCall(kind) ==
  /\ pc = "file"
  /\ ncalls < MaxCalls
  /\ \E name \in TestNames, entry \in TestEntries :
     \E flt \in FaultsFor(fs[FilePath], kind, name, entry) :
       LET c == update_json_file(FilePath, fs[FilePath], bak[FilePath], kind, name, entry, flt)
       IN /\ calls' = <<c>>
          /\ fs' = ApplyFiles(fs, <<c>>)
          /\ bak' = ApplyBaks(bak, <<c>>)
          /\ server_config' = c.entryAfter
          /\ success' = (c.result = "True")
          /\ touched' = touched \cup Touched(<<c>>)
  /\ ncalls' = ncalls + 1
  /\ UNCHANGED <<pc, servers, environments, si, ei, binary_exists, attempted, nfail, nfaults>>

\* lines 323-330
CallVscodeWorkspace == FileCall("WorkspaceNested")
\* lines 333-342
CallVscodeUser == FileCall("UserNested")
\* lines 345-359
CallClaudeConfig == FileCall("FlatPlain") \/ FileCall("FlatWithTypeTag")

NextFile ==
  \/ CallVscodeWorkspace
  \/ CallVscodeUser
  \/ CallClaudeConfig

SpecFile == InitFile /\ [][NextFile]_vars

(* ======================= properties ===================================== *)
CallSet == {calls[i] : i \in 1..Len(calls)}
\* the adapter of call c ran to its end
Mutated(c) == c.stage \notin {"read", "mutate"}

ContainerRoot(kind) ==
  CASE kind = "WorkspaceNested" -> "servers"
    [] kind = "UserNested" -> "mcp"
    [] OTHER -> "mcpServers"
\* the value under key, or the empty mapping when the key is absent
Sub(v, key) == IF key \in Keys(v) THEN v.m[key] ELSE EmptyDoc
\* the innermost container of an adapter inside document d
Container(kind, d) ==
  CASE kind = "WorkspaceNested" -> Sub(d, "servers")
    [] kind = "UserNested" -> Sub(Sub(d, "mcp"), "servers")
    [] OTHER -> Sub(d, "mcpServers")
\* top level and every container level on the adapter's path: absent or a mapping
WellShaped(kind, d) ==
  /\ IsObj(d)
  /\ IsObj(Sub(d, ContainerRoot(kind)))
  /\ IsObj(Container(kind, d))
\* b is a with key added or replaced, nothing else differing
SameExcept(a, b, key) ==
  /\ IsObj(b)
  /\ Keys(b) = Keys(a) \cup {key}
  /\ \A k \in Keys(a) \ {key} : b.m[k] = a.m[k]

FrameHolds(kind, name, before, after) ==
  /\ SameExcept(before, after, ContainerRoot(kind))
  /\ kind = "UserNested" => SameExcept(Sub(before, "mcp"), Sub(after, "mcp"), "servers")
  /\ SameExcept(Container(kind, before), Container(kind, after), name)

\* C1: an upsert on a document whose container levels are absent or mappings
\* changes nothing but container[name]: the other top-level keys, the
\* siblings inside mcp and the other names of the innermost container keep
\* their values, in memory and in the file that is written.
C1_Frame ==
  \A c \in CallSet :
    (c.pre.t = "json" /\ WellShaped(c.kind, c.pre.d)) =>
      /\ Mutated(c)
      /\ FrameHolds(c.kind, c.name, c.pre.d, c.dataOut)
      /\ c.result = "True" => (c.post.t = "json" /\ FrameHolds(c.kind, c.name, c.pre.d, c.post.d))

\* an entry is overwritten in a document with unrelated keys and siblings
C1_Witness ==
  \E c \in CallSet :
    /\ c.kind = "UserNested" /\ c.pre = JsonText(RichDoc, FALSE) /\ c.result = "True"
    /\ c.name \in Keys(Container(c.kind, c.pre.d))
    /\ Container(c.kind, c.post.d).m[c.name] # Container(c.kind, c.pre.d).m[c.name]

\* C2: a call on an existing valid file that fails - the adapter raises after
\* the read, or the write fails and the restore copies the .bak back - leaves
\* the bytes of the file as they were, and a failed write returns False.
C2_FailureAtomic ==
  \A c \in CallSet :
    c.pre.t = "json" =>
      /\ (c.stage = "mutate" \/ (c.stage = "persist" /\ c.restored)) => c.post = c.pre
      /\ c.stage = "persist" => c.result = "False"

\* C3: the bytes copied back over the target after a failed write are the
\* ones the backup step of the same call snapshotted: nothing is copied back
\* when the file did not exist or the snapshot of this call failed.
C3_RestoreOwnSnapshot ==
  \A c \in CallSet : c.restored => (c.existed /\ c.snapshot /\ c.post = c.pre)

\* C4: a file that exists but does not hold valid JSON gives a warning and no
\* exception, the call starts from {} and, when the write goes through,
\* returns True with the file holding only the new entry and its containers;
\* a missing file is treated the same, without the warning.
C4_CorruptTolerated ==
  \A c \in CallSet :
    (c.pre.t # "json") =>
      /\ c.result # "raise" \/ c.stage = "mkdir"
      /\ c.warnParse = c.existed
      /\ c.dataIn = EmptyDoc
      /\ c.stage = "done" =>
           /\ c.result = "True"
           /\ c.post = Dump(c.dataOut)
           /\ Keys(c.dataOut) = {ContainerRoot(c.kind)}
           /\ Keys(Container(c.kind, c.dataOut)) = {c.name}

\* what an adapter must store for entry e
StoredEntryOk(kind, e, stored) ==
  IF kind = "FlatWithTypeTag"
  THEN /\ IsObj(stored)
       /\ Keys(stored) = Keys(e) \cup {"type"}
       /\ stored.m["type"] = Str("stdio")
       /\ \A k \in Keys(e) : stored.m[k] = e.m[k]
  ELSE stored = e

ShapeExact(c) ==
  /\ Mutated(c)
  /\ WellShaped(c.kind, c.dataOut)
  /\ c.name \in Keys(Container(c.kind, c.dataOut))
  /\ StoredEntryOk(c.kind, c.entry, Container(c.kind, c.dataOut).m[c.name])
  /\ ContainerRoot(c.kind) \notin Keys(c.dataIn) => Keys(Container(c.kind, c.dataOut)) = {c.name}
  /\ "type" \notin Keys(c.entry)
  /\ c.entryAfter = c.entry

\* C5 as claimed: for every document loaded from the file, whatever its
\* shape, the adapter creates the missing levels and the owned path then
\* holds exactly the entry (with type = "stdio" only in the FlatWithTypeTag
\* copy), the shared entry object unchanged.
C5_AnyDocument ==
  \A c \in CallSet : c.stage # "read" => ShapeExact(c)

\* C5 amended: the same for every document whose top level is a mapping and
\* whose container levels on the adapter's path are absent or mappings.
C5_ShapeExact ==
  \A c \in CallSet : (c.stage # "read" /\ WellShaped(c.kind, c.dataIn)) => ShapeExact(c)

\* the type tag goes into the stored copy of a document without mcpServers
C5_Witness ==
  \E c \in CallSet :
    /\ c.kind = "FlatWithTypeTag" /\ c.result = "True"
    /\ "mcpServers" \notin Keys(c.dataIn)
    /\ "type" \in Keys(c.post.d.m["mcpServers"].m[c.name])

SameCall(a, b) ==
  a.path = b.path /\ a.kind = b.kind /\ a.name = b.name /\ a.entry = b.entry

\* C6: applying an adapter to its own result changes nothing, and a second
\* successful update_json_file call with the same adapter, name and entry
\* leaves the file as the first one left it.
C6_Idempotent ==
  [][\A c \in {calls'[i] : i \in 1..Len(calls')} :
       /\ Mutated(c) =>
            /\ ~Adapter(c.kind, c.dataOut, c.name, c.entry).raised
            /\ Adapter(c.kind, c.dataOut, c.name, c.entry).doc = c.dataOut
       /\ \A b \in CallSet :
            (SameCall(b, c) /\ b.result = "True" /\ c.result = "True") => c.post = b.post]_vars

\* the same call made twice, on a file that was not in dump format at first
C6_Witness ==
  \E c \in CallSet :
    /\ ncalls = 2 /\ c.result = "True"
    /\ c.pre = Dump(c.dataOut) /\ c.preBak = JsonText(RichDoc, FALSE)

\* the (server, environment) pairs of main's two loops, in loop order
ExpectedPairs ==
  LET ne == Len(environments) IN
  [i \in 1..(Len(servers) * ne) |->
     <<servers[((i - 1) \div ne) + 1].name, environments[((i - 1) % ne) + 1]>>]
\* the pairs main is past
PairsDone ==
  CASE pc = "env" -> (si - 1) * Len(environments) + (ei - 1)
    [] pc = "crashed" -> (si - 1) * Len(environments) + ei
    [] OTHER -> (si - 1) * Len(environments)

\* C7: a failed update - False or an exception - never stops main: the pairs
\* are attempted one after the other in loop order, all of them when main
\* reaches its summary, and the run halts early only for a missing binary.
C7_ErrorIsolation ==
  /\ pc # "crashed"
  /\ pc = "exit" => (servers[si].mode = "local" /\ ~binary_exists)
  /\ pc \in {"server", "env", "exit", "done"} =>
       attempted = SubSeq(ExpectedPairs, 1, PairsDone)
  /\ pc = "done" => attempted = ExpectedPairs

\* a pair failed, the pairs after it were attempted and the last one succeeded
C7_Witness ==
  /\ pc = "done" /\ nfail >= 1 /\ success
  /\ Len(attempted) = 2 * Len(Environments)

\* C8: when the binary is missing in local mode the run halts with no target
\* file and no backup written and no update attempted, however many servers
\* are configured; no update is made in local mode without the binary.
C8_BinaryMissingFirst ==
  /\ pc = "exit" => (touched = {} /\ attempted = <<>> /\ calls = <<>>)
  /\ (pc \in {"env", "done"} /\ servers[1].mode = "local") => binary_exists
  /\ (pc = "server" /\ si > 1 /\ servers[1].mode = "local") => binary_exists

C8_Witness == pc = "exit" /\ Len(servers) = 2 /\ ~binary_exists

\* C9: the env of a built entry holds GITLAB_TOKEN = token, and holds
\* GITLAB_HOST = host exactly when the host is not the default host.
C9_EntryEnv ==
  pc = "env" =>
    LET env == server_config.m["env"]
        data == servers[si]
    IN /\ "GITLAB_TOKEN" \in Keys(env) /\ env.m["GITLAB_TOKEN"] = Str(data.token)
       /\ "GITLAB_HOST" \in Keys(env) <=> data.gitlab_host # DefaultHost
       /\ "GITLAB_HOST" \in Keys(env) => env.m["GITLAB_HOST"] = Str(data.gitlab_host)

\* C10: for a VS Code selection the workspace file is tried first; when that
\* update returns False or raises, the user-settings update is made once and
\* decides the result; when it succeeds, user settings and their backup are
\* left alone.
C10_Fallback ==
  [][(pc = "env" /\ environments[ei] = "VS Code" /\ attempted' # attempted) =>
       /\ Len(calls') >= 1
       /\ calls'[1].path = "vscode_workspace" /\ calls'[1].kind = "WorkspaceNested"
       /\ calls'[1].result = "True" =>
            /\ Len(calls') = 1 /\ success'
            /\ fs'["vscode_user_settings"] = fs["vscode_user_settings"]
            /\ bak'["vscode_user_settings"] = bak["vscode_user_settings"]
       /\ calls'[1].result # "True" =>
            /\ Len(calls') = 2
            /\ calls'[2].path = "vscode_user_settings" /\ calls'[2].kind = "UserNested"
            /\ success' = (calls'[2].result = "True")
            /\ fs'["vscode_user_settings"] = calls'[2].post]_vars

\* the workspace adapter raised and the fallback wrote the user settings
C10_Witness ==
  /\ Len(calls) = 2
  /\ calls[1].result = "raise" /\ calls[1].stage = "mutate"
  /\ calls[2].result = "True" /\ success
====
